---------------------------- MODULE Spec2Model ----------------------------
(***************************************************************************)
(* Model of src/Nature_Poster_Videos.py: one run of main() searches the    *)
(* media source, filters each video of each page (process_videos), posts   *)
(* the first acceptable one to the social platform, edits its caption and  *)
(* logs it to the sqlite table Nature_Bot_Logged_FB_Posts.  Runs are       *)
(* executed one after another against the same database file.              *)
(*                                                                         *)
(* Strings whose content the code inspects (extensions, descriptions, bad  *)
(* words) are sequences of one-character strings.  An uncaught Python      *)
(* exception ends the run in pc = "Crashed" with the exception in error;   *)
(* a run that returns from main ends in pc = "Done".  The process then     *)
(* exits (pc = "Exited") and its variables are gone.                       *)
(***************************************************************************)
EXTENDS Integers, Sequences, FiniteSets, TLC

\* ------------------------------------------------------------- bounds
NumRuns == 2        \* runs executed one after another on the same store
MaxID == 2          \* distinct source IDs the media source can return
MaxPageLen == 2     \* videos per page (the code asks for 15 per page)

\* ------------------------------------------------ program constants
MaxFileSize == 1000000      \* line 205: video_file_size >= 1_000_000
MaxDuration == 1200         \* line 209: video.duration >= 1200
KiloDivisor == 1000         \* line 55: content-length / 1000
NumPlaceholders == 10       \* line 174: ten "?" in the INSERT statement

Runs == 1..NumRuns
IDs == 1..MaxID
None == "None"
NoVideo == [id |-> 0, extension |-> <<>>, duration |-> 0, description |-> <<>>]
NoSize == [num |-> 0, den |-> 1]
NoUrl == <<"none", 0>>
Ended == {"Done", "Crashed"}      \* main has returned, or has raised

Range(s) == {s[i] : i \in 1..Len(s)}

\* --------------------------------------------------- string helpers
UpperCase == <<"A","B","C","D","E","F","G","H","I","J","K","L","M",
               "N","O","P","Q","R","S","T","U","V","W","X","Y","Z">>
LowerCase == <<"a","b","c","d","e","f","g","h","i","j","k","l","m",
               "n","o","p","q","r","s","t","u","v","w","x","y","z">>

\* str.lower() on one character
LowerChar(c) ==
    IF \E i \in 1..Len(UpperCase) : UpperCase[i] = c
    THEN LowerCase[CHOOSE i \in 1..Len(UpperCase) : UpperCase[i] = c]
    ELSE c

\* str.lower()
Lower(s) == [i \in 1..Len(s) |-> LowerChar(s[i])]

\* Python's  sub in s  on strings
IsSubstring(sub, s) ==
    \E i \in 1..(Len(s) - Len(sub) + 1) : SubSeq(s, i, i + Len(sub) - 1) = sub

\* str.split(" "): cut at every single space character
RECURSIVE Split(_)
Split(s) ==
    IF \A i \in 1..Len(s) : s[i] # " "
    THEN <<s>>
    ELSE LET i == CHOOSE k \in 1..Len(s) :
                     s[k] = " " /\ \A j \in 1..(k - 1) : s[j] # " "
         IN  <<SubSeq(s, 1, i - 1)>> \o Split(SubSeq(s, i + 1, Len(s)))

\* [item for word in rows for item in word]
RECURSIVE Flatten(_)
Flatten(rows) ==
    IF rows = <<>> THEN <<>> ELSE Head(rows) \o Flatten(Tail(rows))

\* -------------------------------------------- the store's fixed tables
Bad_Words == << << <<"b","a","d">> >>, << <<"U","g","l","y">> >> >>
Photo_Search_Terms == << <<"forest">>, <<"river">> >>

\* ------------------------------------------------ the inputs of a run
Extensions == { <<"m","p","4">>, <<"M","P","4">>, <<"g","i","f">>,
                <<"v","i","d","e","o","/","m","p","4">> }
Durations == {MaxDuration - 1, MaxDuration}
Descriptions == { <<"B","a","d"," ","b","i","r","d">>,
                  <<"b","a","d","l","a","n","d","s">>,
                  <<"A","\t","b","a","d">> }

\* what the media source can return as one video
Candidates ==
    [id : IDs, extension : Extensions, duration : Durations,
     description : Descriptions]

\* the attributes the code reads off a video that derive from its id
VideoUrl(v) == <<"url", v.id>>          \* video.url, the permalink
VideoLink(v) == <<"link", v.id>>        \* video.link, the media file
VideoUser(v) == <<"user", v.id>>        \* video.videographer

\* what requests.get(url) can give: an exception, a response without a
\* content-length header, or a content-length in bytes
ContentLengths ==
    {5000,
     (MaxFileSize - 1) * KiloDivisor,
     MaxFileSize * KiloDivisor - 1,
     MaxFileSize * KiloDivisor,
     MaxFileSize * KiloDivisor + 1}

ProbeOutcomes ==
    {[status |-> "RequestException", length |-> 0],
     [status |-> "NoContentLength", length |-> 0]}
    \cup {[status |-> "ok", length |-> n] : n \in ContentLengths}

\* the text of a response of the platform, as its tokens
Responses ==
    { <<"{", "id", "p1", "}">>,
      <<"{", "error", "denied", "}">>,
      <<"<html>">> }

VARIABLES
    Nature_Bot_Logged_FB_Posts, \* committed rows of the publish history
    pending,            \* per run: rows inserted, not yet committed
    conn,               \* per run: "none", "open", "closed", "lost"
    pc,                 \* per run: the position of the run
    term,               \* per run: the search term chosen
    exhausted,          \* per run: the source has no further results
    videos,             \* per run: videos of the page the loop has not taken
    video,              \* per run: the loop variable
    video_file_size,    \* per run: the float get_file_size returned
    probed_url,         \* per run: the url get_file_size was given
    decision,           \* per run: how the filter left the current video
    post_to_fb_request, \* per run: the text post_to_fb returned
    caption,            \* per run: "none", "edited", "failed"
    data_to_log,        \* per run: the tuple to log ([] until then)
    done,               \* per run: main's done (<<>> is falsy)
    error,              \* per run: the uncaught exception, or None
    fb_posts            \* the posts the platform has created, in order

vars == <<Nature_Bot_Logged_FB_Posts, pending, conn, pc, term, exhausted,
          videos, video, video_file_size, probed_url, decision,
          post_to_fb_request, caption, data_to_log, done, error, fb_posts>>

store == <<Nature_Bot_Logged_FB_Posts, pending>>
locals == <<videos, video, video_file_size, probed_url, decision,
            post_to_fb_request, data_to_log>>
apiState == <<term, exhausted>>

\* a row of the history table: its ID column, the run that wrote it (0: a
\* row the database file already held) and the values bound to it
OldRow(i) == [ID |-> ToString(i), by |-> 0, values |-> <<>>]

RECURSIVE OldRows(_)
OldRows(n) == IF n = 0 THEN <<>> ELSE OldRows(n - 1) \o <<OldRow(n)>>

Init ==
    /\ Nature_Bot_Logged_FB_Posts \in {OldRows(n) : n \in 0..MaxID}
    /\ pending = [r \in Runs |-> <<>>]
    /\ conn = [r \in Runs |-> "none"]
    /\ pc = [r \in Runs |-> "Idle"]
    /\ term = [r \in Runs |-> None]
    /\ exhausted = [r \in Runs |-> FALSE]
    /\ videos = [r \in Runs |-> 0]
    /\ video = [r \in Runs |-> NoVideo]
    /\ video_file_size = [r \in Runs |-> NoSize]
    /\ probed_url = [r \in Runs |-> NoUrl]
    /\ decision = [r \in Runs |-> None]
    /\ post_to_fb_request = [r \in Runs |-> <<>>]
    /\ caption = [r \in Runs |-> "none"]
    /\ data_to_log = [r \in Runs |-> <<>>]
    /\ done = [r \in Runs |-> <<>>]
    /\ error = [r \in Runs |-> None]
    /\ fb_posts = <<>>

\* ------------------------------------------------- the pure functions

\* no_badwords (lines 26-40): word.lower() on line 38 discards its result,
\* so the sentence is used as passed;  word in sentence  is list membership
no_badwords(sentence) ==
    LET Bad_Words_List == Flatten(Bad_Words)
    IN  ~ \E i \in 1..Len(Bad_Words_List) : Bad_Words_List[i] \in Range(sentence)

\* get_file_size (line 55): float(content-length) / 1000, kept as a fraction
get_file_size(length) == [num |-> length, den |-> KiloDivisor]

\* the size bound with > in place of >=
SizeTooLarge_NotStrict(size) == size.num > MaxFileSize * size.den

\* video_file_size >= 1_000_000 on the fraction
SizeTooLarge(size) == size.num >= MaxFileSize * size.den

\* the duration bound with > in place of >=
DurationTooLong_NotStrict(duration) == duration > MaxDuration

\* video.duration >= 1200
DurationTooLong(duration) == duration >= MaxDuration

\* acceptable_extension (lines 60-71):  e in video_extension  is a substring
\* test of each listed extension in the given string
extensions == << <<"m","p","4">>, <<"m","o","v">>, <<"w","m","v">>,
                 <<"a","v","i">> >>

acceptable_extension(video_extension) ==
    \E i \in 1..Len(extensions) : IsSubstring(extensions[i], video_extension)

\* id_is_in_db (lines 136-152) on the rows the connection sees
id_is_in_db(rows, id_string) ==
    LET IDs_from_db == SelectSeq(rows, LAMBDA row : row.ID = id_string)
    IN  IDs_from_db # <<>>

\* get_search_terms (lines 155-165)
get_search_terms == Flatten(Photo_Search_Terms)

\* json.loads on the tokens of a response: the object's key and value, or
\* "JSONDecodeError" for a text that is no JSON object
json_loads(text) ==
    IF Len(text) = 4 /\ text[1] = "{" /\ text[4] = "}"
    THEN [key |-> text[2], value |-> text[3]]
    ELSE [key |-> "JSONDecodeError", value |-> None]

\* get_post_id_from_json (lines 93-108): dict.get('id'), None when absent
get_post_id_from_json(request) ==
    LET return_text_dict == json_loads(request)
        id_from_json == IF return_text_dict.key = "id"
                        THEN return_text_dict.value ELSE None
    IN  IF id_from_json # None /\ id_from_json # "" THEN id_from_json ELSE None

\* the chain without the duplicate check of lines 201-202
FilterDecision_NoDuplicateCheck(v, size, rows) ==
    IF ~ acceptable_extension(v.extension) THEN "bad-extension"
    ELSE IF SizeTooLarge(size) THEN "too-large"
    ELSE IF DurationTooLong(v.duration) THEN "too-long"
    ELSE IF ~ no_badwords(Split(Lower(v.description))) THEN "unsafe-content"
    ELSE "accept"

\* the chain of early continues of process_videos, lines 198-213, in order
FilterDecision(v, size, rows) ==
    IF ~ acceptable_extension(v.extension) THEN "bad-extension"
    ELSE IF id_is_in_db(rows, ToString(v.id)) THEN "duplicate"
    ELSE IF SizeTooLarge(size) THEN "too-large"
    ELSE IF DurationTooLong(v.duration) THEN "too-long"
    ELSE IF ~ no_badwords(Split(Lower(v.description))) THEN "unsafe-content"
    ELSE "accept"

\* lines 219-222 with the test inverted: a successful post is skipped
AfterPost_Inverted(successful_post) ==
    IF successful_post THEN "ForVideo" ELSE "Annotate"

\* lines 219-222: if not successful_post: continue, else caption and log
AfterPost(successful_post) ==
    IF successful_post THEN "Annotate" ELSE "ForVideo"

\* line 196: the url whose size is probed, get_file_size(video.url)
ProbeTarget(v) == VideoUrl(v)

\* line 215: the url handed to the publisher, post_to_fb(video_link)
PostTarget(v) == VideoLink(v)

\* the tuple of lines 232-236
LogTuple(v, size, response) ==
    <<"dt_string", response, v.description, VideoUser(v), ToString(v.id),
      VideoUrl(v), VideoUrl(v), VideoLink(v), size>>

\* ------------------------------------------------------------- actions

\* the rows run r's connection sees
Visible(r) == Nature_Bot_Logged_FB_Posts \o pending[r]

\* an uncaught exception whose rollback also undoes the last committed row
Raise_LosesRow(r, exception) ==
    /\ pc' = [pc EXCEPT ![r] = "Crashed"]
    /\ error' = [error EXCEPT ![r] = exception]
    /\ pending' = [pending EXCEPT ![r] = <<>>]
    /\ conn' = [conn EXCEPT ![r] = IF conn[r] = "open" THEN "lost" ELSE conn[r]]
    /\ Nature_Bot_Logged_FB_Posts' =
           SubSeq(Nature_Bot_Logged_FB_Posts, 1,
                  Len(Nature_Bot_Logged_FB_Posts) - 1)
    /\ UNCHANGED <<apiState, locals, done>>

\* an uncaught exception: main is left, the open transaction is lost
Raise(r, exception) ==
    /\ pc' = [pc EXCEPT ![r] = "Crashed"]
    /\ error' = [error EXCEPT ![r] = exception]
    /\ pending' = [pending EXCEPT ![r] = <<>>]
    /\ conn' = [conn EXCEPT ![r] = IF conn[r] = "open" THEN "lost" ELSE conn[r]]
    /\ UNCHANGED <<Nature_Bot_Logged_FB_Posts, apiState, locals, done>>

\* main, lines 260-270: connect, pick the search term, search page 1
StartRun(r) ==
    /\ pc[r] = "Idle"
    /\ conn' = [conn EXCEPT ![r] = "open"]
    /\ LET Search_Terms == get_search_terms
       IN  \E i \in 1..Len(Search_Terms) :
               term' = [term EXCEPT ![r] = Search_Terms[i]]
    /\ \E e \in BOOLEAN : exhausted' = [exhausted EXCEPT ![r] = e]
    /\ done' = [done EXCEPT ![r] = <<>>]
    /\ pc' = [pc EXCEPT ![r] = "Loop"]
    /\ UNCHANGED <<store, locals, caption, error, fb_posts>>

\* Runs follow one another: run r starts when the runs before it have exited.
MainStart(r) ==
    /\ \A q \in 1..(r - 1) : pc[q] = "Exited"
    /\ StartRun(r)

\* line 272, api.get_video_entries(), and line 187: the page's videos (none
\* once the source is exhausted) and the empty data_to_log
GetVideoEntries(r) ==
    /\ pc[r] = "Loop"
    /\ \E n \in (IF exhausted[r] THEN {0} ELSE 1..MaxPageLen) :
           videos' = [videos EXCEPT ![r] = n]
    /\ data_to_log' = [data_to_log EXCEPT ![r] = <<>>]
    /\ pc' = [pc EXCEPT ![r] = "ForVideo"]
    /\ UNCHANGED <<store, conn, apiState, video, video_file_size, probed_url,
                   decision, post_to_fb_request, caption, done, error,
                   fb_posts>>

\* lines 189-195: the for loop takes the next video of the page, one of
\* those the source can return
NextVideoFrom(r, source) ==
    /\ pc[r] = "ForVideo"
    /\ videos[r] > 0
    /\ \E v \in source : video' = [video EXCEPT ![r] = v]
    /\ videos' = [videos EXCEPT ![r] = videos[r] - 1]
    /\ video_file_size' = [video_file_size EXCEPT ![r] = NoSize]
    /\ probed_url' = [probed_url EXCEPT ![r] = NoUrl]
    /\ decision' = [decision EXCEPT ![r] = None]
    /\ pc' = [pc EXCEPT ![r] = "Probe"]
    /\ UNCHANGED <<store, conn, apiState, post_to_fb_request, caption,
                   data_to_log, done, error, fb_posts>>

NextVideo(r) == NextVideoFrom(r, Candidates)

\* line 189 with no video left: the loop ends, line 247 returns data_to_log
PageDrained(r) ==
    /\ pc[r] = "ForVideo"
    /\ videos[r] = 0
    /\ pc' = [pc EXCEPT ![r] = "Return"]
    /\ UNCHANGED <<store, conn, apiState, locals, caption, done, error,
                   fb_posts>>

\* line 196, get_file_size(video.url), lines 52-57: requests.get may raise,
\* and float(None) raises when the response has no content-length
GetFileSizeWith(r, outcomes) ==
    /\ pc[r] = "Probe"
    /\ \E outcome \in outcomes :
         IF outcome.status = "RequestException"
         THEN Raise(r, "RequestException@52")
         ELSE IF outcome.status = "NoContentLength"
         THEN Raise(r, "TypeError@55")
         ELSE /\ video_file_size' =
                    [video_file_size EXCEPT ![r] = get_file_size(outcome.length)]
              /\ probed_url' = [probed_url EXCEPT ![r] = ProbeTarget(video[r])]
              /\ pc' = [pc EXCEPT ![r] = "Filter"]
              /\ UNCHANGED <<store, conn, apiState, videos, video, decision,
                             post_to_fb_request, data_to_log, done, error>>
    /\ UNCHANGED <<caption, fb_posts>>

GetFileSize(r) == GetFileSizeWith(r, ProbeOutcomes)

\* lines 198-213: the filter; a rejected video is skipped (continue)
Filter(r) ==
    /\ pc[r] = "Filter"
    /\ LET d == FilterDecision(video[r], video_file_size[r], Visible(r))
       IN  /\ decision' = [decision EXCEPT ![r] = d]
           /\ pc' = [pc EXCEPT ![r] = IF d = "accept" THEN "Post" ELSE "ForVideo"]
    /\ UNCHANGED <<store, conn, apiState, videos, video, video_file_size,
                   probed_url, post_to_fb_request, caption, data_to_log, done,
                   error, fb_posts>>

\* line 215, post_to_fb(video_link), lines 82-90: the platform's answer is
\* kept as text; a post was created when the answer carries its id;
\* requests.post may raise
PostToFb(r) ==
    /\ pc[r] = "Post"
    /\ \/ \E response \in Responses :
            /\ post_to_fb_request' = [post_to_fb_request EXCEPT ![r] = response]
            /\ fb_posts' =
                   IF json_loads(response).key = "id"
                   THEN Append(fb_posts, [run |-> r, id |-> video[r].id,
                                          url |-> PostTarget(video[r])])
                   ELSE fb_posts
            /\ pc' = [pc EXCEPT ![r] = "CheckPost"]
            /\ UNCHANGED <<store, conn, apiState, videos, video,
                           video_file_size, probed_url, decision, data_to_log,
                           done, error>>
       \/ /\ Raise(r, "RequestException@89")
          /\ UNCHANGED fb_posts
    /\ UNCHANGED caption

\* lines 216-220: json.loads raises on a text that is no JSON;  None in str
\* raises TypeError; a post id found in the text goes on to the caption
CheckPost(r) ==
    /\ pc[r] = "CheckPost"
    /\ LET fb_post_id == get_post_id_from_json(post_to_fb_request[r])
       IN  IF json_loads(post_to_fb_request[r]).key = "JSONDecodeError"
           THEN Raise(r, "JSONDecodeError@101")
           ELSE IF fb_post_id = None
           THEN Raise(r, "TypeError@217")
           ELSE /\ LET successful_post ==
                           fb_post_id \in Range(post_to_fb_request[r])
                   IN  pc' = [pc EXCEPT ![r] = AfterPost(successful_post)]
                /\ UNCHANGED <<store, conn, apiState, locals, done, error>>
    /\ UNCHANGED <<caption, fb_posts>>

\* lines 224-230, edit_fb_post_caption, lines 121-133: put_object may raise
EditCaption(r) ==
    /\ pc[r] = "Annotate"
    /\ \/ /\ caption' = [caption EXCEPT ![r] = "edited"]
          /\ pc' = [pc EXCEPT ![r] = "Log"]
          /\ UNCHANGED <<store, conn, apiState, locals, done, error>>
       \/ /\ caption' = [caption EXCEPT ![r] = "failed"]
          /\ Raise(r, "GraphAPIError@128")
    /\ UNCHANGED fb_posts

\* lines 232-245, log_to_DB, line 174: sqlite3 raises ProgrammingError when
\* the tuple's length is not the statement's number of placeholders;
\* otherwise the row is inserted, committed, the connection closed and the
\* loop left (break)
LogToDB(r) ==
    /\ pc[r] = "Log"
    /\ LET formatted_tuple ==
               LogTuple(video[r], video_file_size[r], post_to_fb_request[r])
           row == [ID |-> formatted_tuple[5], by |-> r, values |-> formatted_tuple]
       IN  IF Len(formatted_tuple) # NumPlaceholders
           THEN Raise(r, "ProgrammingError@174")
           ELSE /\ data_to_log' = [data_to_log EXCEPT ![r] = formatted_tuple]
                /\ Nature_Bot_Logged_FB_Posts' =
                       Nature_Bot_Logged_FB_Posts \o pending[r] \o <<row>>
                /\ pending' = [pending EXCEPT ![r] = <<>>]
                /\ conn' = [conn EXCEPT ![r] = "closed"]
                /\ pc' = [pc EXCEPT ![r] = "Return"]
                /\ UNCHANGED <<apiState, videos, video, video_file_size,
                               probed_url, decision, post_to_fb_request, done,
                               error>>
    /\ UNCHANGED <<caption, fb_posts>>

\* lines 272-274 with a new search (a new random term) for every next page
Return_NewSearch(r) ==
    /\ pc[r] = "Return"
    /\ done' = [done EXCEPT ![r] = data_to_log[r]]
    /\ IF data_to_log[r] # <<>>
       THEN /\ pc' = [pc EXCEPT ![r] = "Done"]
            /\ UNCHANGED apiState
       ELSE /\ pc' = [pc EXCEPT ![r] = "Loop"]
            /\ \E e \in BOOLEAN : exhausted' = [exhausted EXCEPT ![r] = e]
            /\ \E i \in 1..Len(get_search_terms) :
                   term' = [term EXCEPT ![r] = get_search_terms[i]]
    /\ UNCHANGED <<store, conn, locals, caption, error, fb_posts>>

\* line 247 and lines 272-274: done = process_videos(...); a truthy done
\* ends the loop and main; otherwise api.search_next_page() (further
\* results, or none left) and line 271 again
Return(r) ==
    /\ pc[r] = "Return"
    /\ done' = [done EXCEPT ![r] = data_to_log[r]]
    /\ IF data_to_log[r] # <<>>
       THEN /\ pc' = [pc EXCEPT ![r] = "Done"]
            /\ UNCHANGED apiState
       ELSE /\ pc' = [pc EXCEPT ![r] = "Loop"]
            /\ \E e \in (IF exhausted[r] THEN {TRUE} ELSE BOOLEAN) :
                   exhausted' = [exhausted EXCEPT ![r] = e]
            /\ UNCHANGED term
    /\ UNCHANGED <<store, conn, locals, caption, error, fb_posts>>

\* the process exits after main has returned or raised: its variables are
\* gone, what it committed and what it posted stay
Exit(r) ==
    /\ pc[r] \in Ended
    /\ pc' = [pc EXCEPT ![r] = "Exited"]
    /\ videos' = [videos EXCEPT ![r] = 0]
    /\ video' = [video EXCEPT ![r] = NoVideo]
    /\ video_file_size' = [video_file_size EXCEPT ![r] = NoSize]
    /\ probed_url' = [probed_url EXCEPT ![r] = NoUrl]
    /\ decision' = [decision EXCEPT ![r] = None]
    /\ post_to_fb_request' = [post_to_fb_request EXCEPT ![r] = <<>>]
    /\ data_to_log' = [data_to_log EXCEPT ![r] = <<>>]
    /\ term' = [term EXCEPT ![r] = None]
    /\ exhausted' = [exhausted EXCEPT ![r] = FALSE]
    /\ caption' = [caption EXCEPT ![r] = "none"]
    /\ done' = [done EXCEPT ![r] = <<>>]
    /\ error' = [error EXCEPT ![r] = None]
    /\ conn' = [conn EXCEPT ![r] = "none"]
    /\ UNCHANGED <<store, fb_posts>>

Next ==
    \E r \in Runs :
        \/ MainStart(r)
        \/ GetVideoEntries(r)
        \/ NextVideo(r)
        \/ PageDrained(r)
        \/ GetFileSize(r)
        \/ Filter(r)
        \/ PostToFb(r)
        \/ CheckPost(r)
        \/ EditCaption(r)
        \/ LogToDB(r)
        \/ Return(r)
        \/ Exit(r)

Spec == Init /\ [][Next]_vars

\* a run is a sequential program: it takes its next step whenever it has one
FairSpec == Spec /\ WF_vars(Next)

\* ------------------------------------------- two runs at the same time
\* Two processes run main against the same database file with nothing to
\* serialize them: their steps interleave.  The source serves videos that
\* pass every rule but the duplicate check, and the size probe answers.

ConcRuns == {r \in Runs : r <= 2}

ConcCandidates ==
    {v \in Candidates :
        /\ v.extension = <<"m","p","4">>
        /\ v.duration < MaxDuration
        /\ v.description = <<"b","a","d","l","a","n","d","s">>}

ConcProbeOutcomes == {[status |-> "ok", length |-> 5000]}

ConcNext ==
    \E r \in ConcRuns :
        \/ StartRun(r)
        \/ GetVideoEntries(r)
        \/ NextVideoFrom(r, ConcCandidates)
        \/ PageDrained(r)
        \/ GetFileSizeWith(r, ConcProbeOutcomes)
        \/ Filter(r)
        \/ PostToFb(r)
        \/ CheckPost(r)
        \/ EditCaption(r)
        \/ LogToDB(r)
        \/ Return(r)
        \/ Exit(r)

ConcSpec == Init /\ [][ConcNext]_vars

\* -------------------------------------------------------------- claims

\* the posts the platform created for run r
PostsOf(r) == SelectSeq(fb_posts, LAMBDA p : p.run = r)
Published(r) == PostsOf(r) # <<>>

\* the committed rows run r wrote
RecordsOf(r) == SelectSeq(Nature_Bot_Logged_FB_Posts, LAMBDA row : row.by = r)

\* the source ID is the ID of a committed row
InHistory(id) ==
    \E i \in 1..Len(Nature_Bot_Logged_FB_Posts) :
        Nature_Bot_Logged_FB_Posts[i].ID = ToString(id)

\* the video of run r is, or has been, handed to the publisher
AtPublisher(r) == pc[r] \in {"Post", "CheckPost", "Annotate", "Log"}

\* after a post was created, the positions a run may still take: none of
\* them takes a video, filters, posts or asks for a page
AfterPublish == {"CheckPost", "Annotate", "Log", "Return", "Done", "Crashed",
                 "Exited"}

\* C1: in a run at most one post is created, and once a post was created
\* for a run, the run takes no further video, filters and posts nothing
\* more and requests no further page until it ends.
C1_AtMostOnePublish ==
    [][\A r \in Runs :
          /\ Len(SelectSeq(fb_posts', LAMBDA p : p.run = r)) <= 1
          /\ Published(r) =>
                /\ pc'[r] \in AfterPublish
                /\ SelectSeq(fb_posts', LAMBDA p : p.run = r) = PostsOf(r)]_vars

\* C1 witness: a run created a post and has ended
C1_Witness == \E r \in Runs : Published(r) /\ pc[r] \in Ended

\* C2: a run that has ended and published a candidate has committed exactly
\* one record, with that candidate's source ID; a run that has ended and
\* published nothing has committed none.  (Stated for the runs whose caption
\* edit did not fail; C6 is about those whose caption edit failed.)
C2_OneRecordPerPublish ==
    \A r \in Runs :
        (pc[r] \in Ended /\ caption[r] # "failed") =>
            IF Published(r)
            THEN /\ Len(RecordsOf(r)) = 1
                 /\ RecordsOf(r)[1].ID = ToString(PostsOf(r)[1].id)
            ELSE RecordsOf(r) = <<>>

\* C3: over the runs made one after another, no source ID is posted twice.
C3_NoSourcePostedTwice ==
    \A i, j \in 1..Len(fb_posts) :
        i # j => fb_posts[i].id # fb_posts[j].id

\* C4: once the source is exhausted with nothing accepted, the run
\* eventually ends at Done with an empty result, no post and no record.
C4_ExhaustionTerminates ==
    \A r \in Runs :
        (pc[r] = "Loop" /\ exhausted[r]) ~>
            (pc[r] = "Done" /\ done[r] = <<>> /\ ~ Published(r)
             /\ RecordsOf(r) = <<>>)

\* C5: when the answer to the post creation carries no identifier, the run
\* goes on with the next candidate of the page and writes no record.
C5_NoIdentifierIsRejection ==
    [][\A r \in Runs :
          (pc[r] = "CheckPost"
           /\ get_post_id_from_json(post_to_fb_request[r]) = None)
          => /\ pc'[r] \in {"CheckPost", "ForVideo"}
             /\ UNCHANGED store]_vars

\* C6: when the caption edit failed, the run does not abort, and it ends
\* at Done with the record of the post committed.
C6_AnnotationFailureStillLogs ==
    \A r \in Runs :
        caption[r] = "failed" =>
            /\ pc[r] # "Crashed"
            /\ pc[r] = "Done" => Len(RecordsOf(r)) = 1

\* C7: the step of the size probe, whatever its outcome, leaves the run in
\* the loop over the page (on to the filter, or skipping to the next
\* candidate) and publishes nothing.
C7_ProbeFailureSkips ==
    [][\A r \in Runs :
          pc[r] = "Probe" =>
             /\ pc'[r] \in {"Probe", "Filter", "ForVideo"}
             /\ UNCHANGED fb_posts]_vars

\* the allowed set of extensions, as a set
AllowedExtensions == Range(extensions)

\* C8: a candidate whose extension is not a member of the allowed set is
\* rejected for its extension and never handed to the publisher.
C8_ExtensionOutsideSetRejected ==
    \A r \in Runs :
        (video[r] # NoVideo /\ video[r].extension \notin AllowedExtensions)
        => /\ ~ AtPublisher(r)
           /\ decision[r] \in {None, "bad-extension"}

\* C9: a candidate whose source ID is in the publish history is never
\* accepted by the filter nor handed to the publisher.
C9_DuplicateNeverPublished ==
    \A r \in Runs :
        (video[r] # NoVideo /\ InHistory(video[r].id))
        => /\ ~ AtPublisher(r)
           /\ decision[r] # "accept"

\* the rules other than the size bound pass for the video of run r
OtherRulesPassForSize(r) ==
    /\ video[r] # NoVideo
    /\ acceptable_extension(video[r].extension)
    /\ ~ InHistory(video[r].id)
    /\ video[r].duration < MaxDuration
    /\ no_badwords(Split(Lower(video[r].description)))

\* C9 witness: the filter rejected as a duplicate a candidate that passes
\* every other rule
C9_Witness ==
    \E r \in Runs :
        /\ pc[r] = "ForVideo"
        /\ decision[r] = "duplicate"
        /\ InHistory(video[r].id)
        /\ video[r].extension \in AllowedExtensions
        /\ video_file_size[r].num < MaxFileSize * video_file_size[r].den
        /\ video[r].duration < MaxDuration
        /\ no_badwords(Split(Lower(video[r].description)))

\* C10: with the other rules passing, a size equal to the maximum is
\* rejected as too large and a size one unit (or one byte) below it is
\* accepted: the filter accepts exactly the sizes strictly below the maximum.
C10_SizeBoundStrict ==
    \A r \in Runs :
        (decision[r] # None /\ OtherRulesPassForSize(r)) =>
            LET size == video_file_size[r]
            IN  /\ size.num = MaxFileSize * size.den
                      => decision[r] = "too-large"
                /\ size.num = (MaxFileSize - 1) * size.den
                      => decision[r] = "accept"
                /\ decision[r] = "accept"
                      <=> size.num < MaxFileSize * size.den

\* C10 witness: the filter rejected a candidate of exactly the maximum size
\* that passes every other rule
C10_Witness ==
    \E r \in Runs :
        /\ decision[r] = "too-large"
        /\ OtherRulesPassForSize(r)
        /\ video_file_size[r].num = MaxFileSize * video_file_size[r].den

\* the rules other than the duration bound pass for the video of run r
OtherRulesPassForDuration(r) ==
    /\ video[r] # NoVideo
    /\ acceptable_extension(video[r].extension)
    /\ ~ InHistory(video[r].id)
    /\ video_file_size[r].num < MaxFileSize * video_file_size[r].den
    /\ no_badwords(Split(Lower(video[r].description)))

Whitespace == {" ", "\t", "\n"}

RECURSIVE WhitespaceTokens(_)
WhitespaceTokens(s) ==
    IF s = <<>> THEN <<>>
    ELSE IF Head(s) \in Whitespace THEN WhitespaceTokens(Tail(s))
    ELSE LET n == CHOOSE k \in 1..Len(s) :
                      /\ \A j \in 1..k : s[j] \notin Whitespace
                      /\ k = Len(s) \/ s[k + 1] \in Whitespace
         IN  <<SubSeq(s, 1, n)>> \o WhitespaceTokens(SubSeq(s, n + 1, Len(s)))

\* the entries of the bad-word set, as stored
BadWordEntries == Range(Flatten(Bad_Words))

\* some whitespace-separated token of the description, lower-cased, is an
\* entry of the bad-word set
HasBadToken(description) ==
    \E token \in Range(WhitespaceTokens(description)) :
        Lower(token) \in BadWordEntries

\* the rules checked before the content-safety check pass for the video of r
EarlierRulesPass(r) ==
    /\ video[r] # NoVideo
    /\ acceptable_extension(video[r].extension)
    /\ ~ InHistory(video[r].id)
    /\ video_file_size[r].num < MaxFileSize * video_file_size[r].den
    /\ video[r].duration < MaxDuration

\* C12: with the earlier rules passing, the filter rejects a candidate as
\* unsafe exactly when some whitespace-separated token of its description,
\* lower-cased, equals an entry of the bad-word set as stored, and accepts
\* it otherwise.
C12_BadWordTokenMatch ==
    \A r \in Runs :
        (decision[r] # None /\ EarlierRulesPass(r)) =>
            decision[r] = (IF HasBadToken(video[r].description)
                           THEN "unsafe-content" ELSE "accept")

\* the positions of a run inside the loop over the videos of a page
InPage == {"ForVideo", "Probe", "Filter", "Post", "CheckPost", "Annotate",
           "Log"}

\* C13: the next page is requested only when every video of the current
\* page has been taken by the loop and the run has published nothing; and a
\* run leaves the loop over a page with videos still untaken only when it
\* has published one.
C13_PageDrainedBeforeNextPage ==
    [][\A r \in Runs :
          /\ (pc[r] = "Return" /\ pc'[r] = "Loop")
                => (videos[r] = 0 /\ ~ Published(r))
          /\ (pc[r] \in InPage /\ pc'[r] \notin InPage /\ videos[r] > 0)
                => SelectSeq(fb_posts', LAMBDA p : p.run = r) # <<>>]_vars

\* C16: the size that is compared with the maximum (and goes into the
\* record) is the size of the resource at the url handed to the publisher,
\* the candidate's direct media url.
C16_SizeIsOfMediaUrl ==
    \A r \in Runs :
        video_file_size[r] # NoSize =>
            /\ probed_url[r] = VideoLink(video[r])
            /\ \A i \in 1..Len(fb_posts) :
                   fb_posts[i].run = r => fb_posts[i].url = probed_url[r]

\* C17: no step removes or changes a row of the publish history: the rows
\* present before a step are, unchanged and in place, rows after it.
C17_HistoryOnlyGrows ==
    [][/\ Len(Nature_Bot_Logged_FB_Posts') >= Len(Nature_Bot_Logged_FB_Posts)
       /\ SubSeq(Nature_Bot_Logged_FB_Posts', 1, Len(Nature_Bot_Logged_FB_Posts))
              = Nature_Bot_Logged_FB_Posts]_vars

\* C17 witness: a run that found rows in the history has checked a
\* candidate against them, called log_to_DB and ended, the rows still there
C17_Witness ==
    \E r \in Runs :
        /\ pc[r] = "Crashed"
        /\ error[r] = "ProgrammingError@174"
        /\ Nature_Bot_Logged_FB_Posts # <<>>

\* the positions of a run between its start and its end
Running == {"Loop", "Return"} \cup InPage

\* C18: from its start to its end a run searches one term of the
\* configured term set: no step of the running run, the request of a next
\* page included, changes the term.
C18_TermFixedForRun ==
    [][\A r \in Runs :
          pc[r] \in Running =>
             /\ term[r] \in Range(get_search_terms)
             /\ term'[r] = term[r]]_vars

\* C18 witness: a run has gone through a page and requested the next one
C18_Witness ==
    \E r \in Runs :
        /\ pc[r] = "Loop"
        /\ video[r] # NoVideo
        /\ term[r] \in Range(get_search_terms)

\* C15: with two runs interleaved on the same store, the only guard before
\* a post is the run's own duplicate check: every run that hands a video to
\* the publisher has passed it (the ID is in no committed row), and neither
\* a lock nor the store keeps two runs from passing it for the same ID
\* (C15_Witness is the state where both did and both posted).
C15_OnlyOwnDuplicateCheckGuards ==
    \A r \in ConcRuns :
        AtPublisher(r) =>
            /\ decision[r] = "accept"
            /\ ~ InHistory(video[r].id)

\* C15 witness: two runs alive at the same time have both passed the
\* duplicate check for the same source ID and both posted it
C15_Witness ==
    \E r1, r2 \in ConcRuns :
        /\ r1 # r2
        /\ video[r1] # NoVideo
        /\ video[r1].id = video[r2].id
        /\ decision[r1] = "accept" /\ decision[r2] = "accept"
        /\ pc[r1] \in {"CheckPost", "Annotate", "Log"}
        /\ pc[r2] \in {"CheckPost", "Annotate", "Log"}
        /\ \E i, j \in 1..Len(fb_posts) :
               /\ fb_posts[i].run = r1 /\ fb_posts[i].id = video[r1].id
               /\ fb_posts[j].run = r2 /\ fb_posts[j].id = video[r2].id

=============================================================================
